---- MODULE Spec2Model ----
(***************************************************************************)
(* Wake-word detection and stripping of yui_io/wake.py.                    *)
(*                                                                         *)
(* A Python str is modelled as a sequence of one-character strings and     *)
(* Python's None as the distinguished value None.  Every function of the   *)
(* module is an operator that follows the code statement by statement;     *)
(* the state machine applies them to inputs drawn from bounded sets.       *)
(***************************************************************************)
EXTENDS Integers, Sequences, FiniteSets, TLC

VARIABLES
    wake_word,        \* settings.wake_word
    envAliases,       \* os.environ["YUI_WAKE_WORD_ALIASES"], None when unset
    envFuzzy,         \* os.environ["YUI_WAKE_WORD_FUZZY"], None when unset
    nIn, nOut, nAgain,            \* _normalize: text, output, output of a second
                                  \* pass over the output
    eA, eB, eRes,                 \* _edit_distance_le1: arguments, result
    cOut,                         \* _wake_candidates: returned list
    sttTranscript,                \* what yui_io.stt.listen returns
    calls, listenCalls,           \* wait_for_wake_word calls, listen calls
    result,                       \* the WakeResult of the last call
    fuzzyPass,                    \* what the last call did with the fuzzy pass
    sIn, sOut, sAgain, sRemoved   \* strip_wake_word: text, output, output of a
                                  \* second pass over the output, matches removed

vars == << wake_word, envAliases, envFuzzy, nIn, nOut, nAgain, eA, eB, eRes,
           cOut, sttTranscript, calls, listenCalls, result, fuzzyPass,
           sIn, sOut, sAgain, sRemoved >>

confVars == << wake_word, envAliases, envFuzzy >>
normVars == << nIn, nOut, nAgain >>
editVars == << eA, eB, eRes >>
candVars == << cOut >>
wakeVars == << sttTranscript, calls, listenCalls, result, fuzzyPass >>
stripVars == << sIn, sOut, sAgain, sRemoved >>

----------------------------------------------------------------------------
(* Python values *)

None == << "<None>" >>

\* x or "" : None and the empty str are falsy
OrEmpty(x) == IF x = None THEN << >> ELSE x

\* the characters str.isspace() and the regex class \s accept
Whitespace == { " ", "\t" }

IsSpace(c) == c \in Whitespace

\* str.lower() on one character
lower(c) ==
    CASE c = "Y" -> "y"
      [] c = "U" -> "u"
      [] c = "I" -> "i"
      [] c = "A" -> "a"
      [] c = "B" -> "b"
      [] OTHER -> c

\* the characters str.isupper() accepts; "<U+2102>" stands for one of the
\* capital letters Unicode gives no lowercase form (DOUBLE-STRUCK CAPITAL C),
\* which str.lower() returns unchanged
IsUpper(c) == c \in { "Y", "U", "I", "A", "B", "<U+2102>" }

\* the regex class \w
IsWordChar(c) ==
    c \in { "y", "u", "i", "a", "b", "c", "Y", "U", "I", "A", "B", "_", "<U+2102>" }

RECURSIVE str_lstrip(_)
str_lstrip(s) ==
    IF s = << >> THEN << >>
    ELSE IF IsSpace(Head(s)) THEN str_lstrip(Tail(s)) ELSE s

RECURSIVE str_rstrip(_)
str_rstrip(s) ==
    IF s = << >> THEN << >>
    ELSE IF IsSpace(s[Len(s)]) THEN str_rstrip(SubSeq(s, 1, Len(s) - 1)) ELSE s

str_strip(s) == str_rstrip(str_lstrip(s))

RECURSIVE str_lower(_)
str_lower(s) ==
    IF s = << >> THEN << >> ELSE << lower(Head(s)) >> \o str_lower(Tail(s))

\* re.sub(r"\s+", " ", s): every maximal run of whitespace becomes one space
RECURSIVE re_sub_spaces(_)
re_sub_spaces(s) ==
    IF s = << >> THEN << >>
    ELSE IF IsSpace(Head(s))
         THEN << " " >> \o re_sub_spaces(str_lstrip(Tail(s)))
         ELSE << Head(s) >> \o re_sub_spaces(Tail(s))

\* a plausible slip: r"\s" for r"\s+", one space per whitespace character
RECURSIVE re_sub_each_space(_)
re_sub_each_space(s) ==
    IF s = << >> THEN << >>
    ELSE << (IF IsSpace(Head(s)) THEN " " ELSE Head(s)) >> \o re_sub_each_space(Tail(s))

_normalize_each_space(text) == re_sub_each_space(str_lower(str_strip(OrEmpty(text))))

_normalize(text) == re_sub_spaces(str_lower(str_strip(OrEmpty(text))))

\* all strings over alphabet A of length at most n
StrUpTo(A, n) == UNION { [1..k -> A] : k \in 0..n }

----------------------------------------------------------------------------
(* _normalize applied to a text, then to its own output *)

MaxNormLen == 5
NormAlphabet == { "y", "Y", " ", "\t", "<U+2102>" }
NormInputs == StrUpTo(NormAlphabet, MaxNormLen) \cup { None }

ConfIdle == wake_word = << >> /\ envAliases = None /\ envFuzzy = None
NormIdle == nIn = None /\ nOut = None /\ nAgain = None
EditIdle == eA = None /\ eB = None /\ eRes = "none"
CandIdle == cOut = None
WakeIdle ==
    /\ sttTranscript = None /\ calls = 0 /\ listenCalls = 0
    /\ result = None /\ fuzzyPass = "none"
StripIdle == sIn = None /\ sOut = None /\ sAgain = None /\ sRemoved = << >>

InitNorm ==
    /\ nIn \in NormInputs /\ nOut = None /\ nAgain = None
    /\ ConfIdle /\ EditIdle /\ CandIdle /\ WakeIdle /\ StripIdle

\* _normalize(text) on the text
Normalize ==
    /\ nOut = None
    /\ nOut' = _normalize(nIn)
    /\ UNCHANGED << nIn, nAgain, confVars, editVars, candVars, wakeVars, stripVars >>

\* _normalize(text) on the string the first call returned
NormalizeAgain ==
    /\ nOut # None /\ nAgain = None
    /\ nAgain' = _normalize(nOut)
    /\ UNCHANGED << nIn, nOut, confVars, editVars, candVars, wakeVars, stripVars >>

NextNorm == Normalize \/ NormalizeAgain

SpecNorm == InitNorm /\ [][NextNorm]_vars

\* the output form the normalizer promises
NoEdgeSpace(s) == s = << >> \/ (~IsSpace(s[1]) /\ ~IsSpace(s[Len(s)]))
NoUpper(s) == \A i \in 1..Len(s) : ~IsUpper(s[i])
LowerFixed(s) == \A i \in 1..Len(s) : lower(s[i]) = s[i]
SingleSpaces(s) ==
    \A i \in 1..Len(s) :
        IsSpace(s[i]) => (s[i] = " " /\ (i < Len(s) => ~IsSpace(s[i + 1])))

\* C8 as stated: _normalize is total and idempotent, and its output has no
\* leading or trailing whitespace, no uppercase letter and no whitespace
\* other than isolated ASCII spaces.
C8_NormalizeIdempotent ==
    nAgain # None =>
        /\ nAgain = nOut
        /\ NoEdgeSpace(nOut) /\ NoUpper(nOut) /\ SingleSpaces(nOut)

\* C8, amended: _normalize is total and idempotent, and its output has no
\* leading or trailing whitespace, no character that str.lower() would
\* change (a capital letter without a lowercase form stays as it is) and
\* no whitespace other than isolated ASCII spaces.
C8_NormalizeIdempotentLowered ==
    nAgain # None =>
        /\ nAgain = nOut
        /\ NoEdgeSpace(nOut) /\ LowerFixed(nOut) /\ SingleSpaces(nOut)

\* a text that needs trimming, lowercasing and collapsing, normalized and
\* normalized again
C8_Witness ==
    /\ nIn = << " ", "Y", "\t", " ", "y" >>
    /\ nOut = << "y", " ", "y" >>
    /\ nAgain = << "y", " ", "y" >>

----------------------------------------------------------------------------
(* _edit_distance_le1 *)

MaxEditLen == 4
EditAlphabet == { "y", "u", "i" }
EditInputs == StrUpTo(EditAlphabet, MaxEditLen) \cup { None }

AbsDiff(m, n) == IF m >= n THEN m - n ELSE n - m

\* the loop of the equal-length branch; i is the 0-based loop index
RECURSIVE same_length_walk(_, _, _, _)
same_length_walk(a, b, i, diff) ==
    IF i >= Len(a) THEN TRUE
    ELSE IF a[i + 1] # b[i + 1]
         THEN IF diff + 1 > 1 THEN FALSE
              ELSE same_length_walk(a, b, i + 1, diff + 1)
         ELSE same_length_walk(a, b, i + 1, diff)

\* a plausible slip: the pointer into the shorter string moves on a mismatch too
RECURSIVE two_pointer_walk_both(_, _, _, _, _)
two_pointer_walk_both(a, b, i, j, diff) ==
    IF ~(i < Len(a) /\ j < Len(b)) THEN TRUE
    ELSE IF a[i + 1] = b[j + 1]
         THEN two_pointer_walk_both(a, b, i + 1, j + 1, diff)
         ELSE IF diff + 1 > 1 THEN FALSE
              ELSE two_pointer_walk_both(a, b, i + 1, j + 1, diff + 1)

\* the while loop of the unequal-length branch; a is the shorter string
RECURSIVE two_pointer_walk(_, _, _, _, _)
two_pointer_walk(a, b, i, j, diff) ==
    IF ~(i < Len(a) /\ j < Len(b)) THEN TRUE
    ELSE IF a[i + 1] = b[j + 1]
         THEN two_pointer_walk(a, b, i + 1, j + 1, diff)
         ELSE IF diff + 1 > 1 THEN FALSE
              ELSE two_pointer_walk(a, b, i, j + 1, diff + 1)

_edit_distance_le1(a0, b0) ==
    LET a == OrEmpty(a0)
        b == OrEmpty(b0)
        la == Len(a)
        lb == Len(b)
    IN  IF a = b THEN TRUE
        ELSE IF AbsDiff(la, lb) > 1 THEN FALSE
        ELSE IF la = lb THEN same_length_walk(a, b, 0, 0)
        ELSE IF la > lb THEN two_pointer_walk(b, a, 0, 0, 0)
        ELSE two_pointer_walk(a, b, 0, 0, 0)

InitEdit ==
    /\ eA \in EditInputs /\ eB \in EditInputs /\ eRes = "none"
    /\ ConfIdle /\ NormIdle /\ CandIdle /\ WakeIdle /\ StripIdle

EditDistance ==
    /\ eRes = "none"
    /\ eRes' = IF _edit_distance_le1(eA, eB) THEN "True" ELSE "False"
    /\ UNCHANGED << eA, eB, confVars, normVars, candVars, wakeVars, stripVars >>

NextEdit == EditDistance

SpecEdit == InitEdit /\ [][NextEdit]_vars

Min3(x, y, z) ==
    IF x <= y /\ x <= z THEN x ELSE IF y <= z THEN y ELSE z

\* the Levenshtein distance, by its defining recursion
RECURSIVE Levenshtein(_, _)
Levenshtein(a, b) ==
    IF a = << >> THEN Len(b)
    ELSE IF b = << >> THEN Len(a)
    ELSE IF Head(a) = Head(b) THEN Levenshtein(Tail(a), Tail(b))
    ELSE 1 + Min3(Levenshtein(Tail(a), b),
                  Levenshtein(a, Tail(b)),
                  Levenshtein(Tail(a), Tail(b)))

\* C3: _edit_distance_le1(a, b) is true exactly when the Levenshtein
\* distance of a and b (None read as "") is 0 or 1.
C3_EditDistanceIsLevenshteinLe1 ==
    eRes # "none" =>
        ((eRes = "True") <=> (Levenshtein(OrEmpty(eA), OrEmpty(eB)) <= 1))

\* a pair whose lengths differ by one and that is one insertion apart,
\* the longer string given first
C3_Witness ==
    /\ eRes = "True"
    /\ eA = << "y", "u", "y" >> /\ eB = << "y", "y" >>

----------------------------------------------------------------------------
(* _wake_candidates *)

\* the separators of re.split(r"[,\|;]\s*", ...)
Separators == { ",", "|", ";" }

\* re.split(r"[,\|;]\s*", s): cur is the piece being read
RECURSIVE re_split_from(_, _)
re_split_from(s, cur) ==
    IF s = << >> THEN << cur >>
    ELSE IF Head(s) \in Separators
         THEN << cur >> \o re_split_from(str_lstrip(Tail(s)), << >>)
         ELSE re_split_from(Tail(s), Append(cur, Head(s)))

re_split(s) == re_split_from(s, << >>)

\* lines 26-29: the normalized, non-empty pieces, in order
RECURSIVE alias_parts(_)
alias_parts(parts) ==
    IF parts = << >> THEN << >>
    ELSE LET p == _normalize(Head(parts))
         IN  (IF p # << >> THEN << p >> ELSE << >>) \o alias_parts(Tail(parts))

InSeq(x, q) == \E i \in 1..Len(q) : q[i] = x

\* a plausible slip: the seen-set test is left out
RECURSIVE collect_nonempty(_, _)
collect_nonempty(ws, out) ==
    IF ws = << >> THEN out
    ELSE IF Head(ws) = << >> THEN collect_nonempty(Tail(ws), out)
    ELSE collect_nonempty(Tail(ws), Append(out, Head(ws)))

\* lines 31-39: the loop over [base, *aliases]; seen holds the entries of out
RECURSIVE collect_unique(_, _)
collect_unique(ws, out) ==
    IF ws = << >> THEN out
    ELSE IF Head(ws) = << >> THEN collect_unique(Tail(ws), out)
    ELSE IF InSeq(Head(ws), out) THEN collect_unique(Tail(ws), out)
    ELSE collect_unique(Tail(ws), Append(out, Head(ws)))

\* settings is the Settings object; the alias list is read from the environment
_wake_candidates(settings) ==
    LET base == _normalize(OrEmpty(settings.wake_word))
        env_aliases == str_strip(OrEmpty(envAliases))
        aliases == IF env_aliases # << >>
                   THEN alias_parts(re_split(env_aliases))
                   ELSE << >>
    IN  collect_unique(<< base >> \o aliases, << >>)

settings == [ wake_word |-> wake_word ]

MaxAliasLen == 4
AliasAlphabet == { "y", "u", "Y", " ", ",", ";", "|" }
CandWakeWords == { None, << >>, << "y" >>, << " ", "Y", "u" >>, << "u", "\t", "y" >> }

InitCand ==
    /\ wake_word \in CandWakeWords
    /\ envAliases \in StrUpTo(AliasAlphabet, MaxAliasLen) \cup { None }
    /\ envFuzzy = None
    /\ cOut = None
    /\ NormIdle /\ EditIdle /\ WakeIdle /\ StripIdle

BuildCandidates ==
    /\ cOut = None
    /\ cOut' = _wake_candidates(settings)
    /\ UNCHANGED << confVars, normVars, editVars, wakeVars, stripVars >>

NextCand == BuildCandidates

SpecCand == InitCand /\ [][NextCand]_vars

\* the configured names, as the claim reads them
PrimaryWord == _normalize(wake_word)
AliasList == alias_parts(re_split(str_strip(OrEmpty(envAliases))))
FirstIndex(x, q) == CHOOSE i \in 1..Len(q) : q[i] = x /\ \A k \in 1..(i - 1) : q[k] # x

\* C6: the candidate list holds no empty string and no duplicate, every
\* entry is in normalized form, the normalized primary word (when
\* non-empty) comes first, the other entries are aliases in the order of
\* their first occurrence in the alias string, every configured name is
\* listed, and the list is empty only if every name normalizes to empty.
C6_CandidateList ==
    cOut # None =>
        /\ \A i \in 1..Len(cOut) :
              /\ cOut[i] # << >>
              /\ NoEdgeSpace(cOut[i]) /\ LowerFixed(cOut[i]) /\ SingleSpaces(cOut[i])
        /\ \A i, j \in 1..Len(cOut) : i # j => cOut[i] # cOut[j]
        /\ PrimaryWord # << >> => (Len(cOut) >= 1 /\ cOut[1] = PrimaryWord)
        /\ \A i \in 1..Len(cOut) :
              cOut[i] # PrimaryWord => InSeq(cOut[i], AliasList)
        /\ \A i, j \in 1..Len(cOut) :
              (i < j /\ cOut[i] # PrimaryWord /\ cOut[j] # PrimaryWord)
                  => FirstIndex(cOut[i], AliasList) < FirstIndex(cOut[j], AliasList)
        /\ \A i \in 1..Len(AliasList) : InSeq(AliasList[i], cOut)
        /\ (cOut = << >>) <=> (PrimaryWord = << >> /\ AliasList = << >>)

\* an alias listed before a second alias that repeats the primary word in
\* another case: the primary word stays first and is listed once
C6_Witness ==
    /\ cOut = << << "y" >>, << "u" >> >>
    /\ wake_word = << "y" >>
    /\ envAliases = << "u", ";", " ", "Y" >>

----------------------------------------------------------------------------
(* wait_for_wake_word *)

\* str.split(): the maximal runs of non-whitespace characters; cur is the
\* word being read
RECURSIVE str_split_from(_, _)
str_split_from(s, cur) ==
    IF s = << >> THEN (IF cur = << >> THEN << >> ELSE << cur >>)
    ELSE IF IsSpace(Head(s))
         THEN (IF cur = << >> THEN << >> ELSE << cur >>) \o str_split_from(Tail(s), << >>)
         ELSE str_split_from(Tail(s), Append(cur, Head(s)))

str_split(s) == str_split_from(s, << >>)

StartsWith(s, w) == Len(w) <= Len(s) /\ SubSeq(s, 1, Len(w)) = w

\* w in s, for two strings
RECURSIVE str_contains(_, _)
str_contains(s, w) ==
    IF StartsWith(s, w) THEN TRUE
    ELSE IF s = << >> THEN FALSE
    ELSE str_contains(Tail(s), w)

\* line 113: any((w in words or w in norm) for w in candidates)
RECURSIVE any_exact(_, _, _)
any_exact(candidates, words, norm) ==
    IF candidates = << >> THEN FALSE
    ELSE IF InSeq(Head(candidates), words) \/ str_contains(norm, Head(candidates)) THEN TRUE
    ELSE any_exact(Tail(candidates), words, norm)

\* the values of YUI_WAKE_WORD_FUZZY that switch the fuzzy pass off
FuzzyOff == { << "0" >>, << "f", "a", "l", "s", "e" >>, << "F", "a", "l", "s", "e" >> }

\* a plausible slip: the value is read without .strip()
fuzzy_setting_unstripped ==
    LET v == IF envFuzzy = None THEN << "1" >> ELSE envFuzzy
    IN  IF v = << >> THEN << "1" >> ELSE v

\* line 116: (os.getenv("YUI_WAKE_WORD_FUZZY", "1") or "1").strip()
fuzzy_setting ==
    LET v == IF envFuzzy = None THEN << "1" >> ELSE envFuzzy
    IN  str_strip(IF v = << >> THEN << "1" >> ELSE v)

FuzzyMinLen == 2
FuzzyMaxLen == 6

\* a plausible slip: the upper length bound is left out
fuzzy_skips_short_only(word) == Len(word) < FuzzyMinLen

\* line 119: the words the fuzzy pass leaves out
fuzzy_skips(word) == Len(word) < FuzzyMinLen \/ Len(word) > FuzzyMaxLen

\* lines 121-123: the loop over the candidates for one word
RECURSIVE any_fuzzy_cand(_, _)
any_fuzzy_cand(word, candidates) ==
    IF candidates = << >> THEN FALSE
    ELSE IF _edit_distance_le1(word, Head(candidates)) THEN TRUE
    ELSE any_fuzzy_cand(word, Tail(candidates))

\* lines 118-123: the loop over the words
RECURSIVE any_fuzzy(_, _)
any_fuzzy(words, candidates) ==
    IF words = << >> THEN FALSE
    ELSE IF fuzzy_skips(Head(words)) THEN any_fuzzy(Tail(words), candidates)
    ELSE IF any_fuzzy_cand(Head(words), candidates) THEN TRUE
    ELSE any_fuzzy(Tail(words), candidates)

WakeResult(heard, transcript) == [ heard |-> heard, transcript |-> transcript ]

\* yui_io.stt.listen: the collaborator returns the recognized text or None
listen(st) == sttTranscript

\* a plausible slip: listen is called before the candidate list is tested
wait_for_wake_word_listen_first(st) ==
    LET candidates == _wake_candidates(st)
        transcript == listen(st)
        norm == _normalize(transcript)
        words == str_split(norm)
    IN  IF candidates = << >>
        THEN [ result |-> WakeResult(TRUE, None), listens |-> 1, fuzzy |-> "notreached" ]
        ELSE IF transcript = None \/ transcript = << >>
        THEN [ result |-> WakeResult(FALSE, None), listens |-> 1, fuzzy |-> "notreached" ]
        ELSE IF any_exact(candidates, words, norm)
        THEN [ result |-> WakeResult(TRUE, transcript), listens |-> 1, fuzzy |-> "notreached" ]
        ELSE IF fuzzy_setting \notin FuzzyOff
        THEN [ result |-> WakeResult(any_fuzzy(words, candidates), transcript),
               listens |-> 1, fuzzy |-> "ran" ]
        ELSE [ result |-> WakeResult(FALSE, transcript), listens |-> 1, fuzzy |-> "skipped" ]

\* the returned WakeResult, the number of listen calls made, and whether
\* the fuzzy pass was reached and run
wait_for_wake_word(st) ==
    LET candidates == _wake_candidates(st)
        transcript == listen(st)
        norm == _normalize(transcript)
        words == str_split(norm)
    IN  IF candidates = << >>
        THEN [ result |-> WakeResult(TRUE, None), listens |-> 0, fuzzy |-> "notreached" ]
        ELSE IF transcript = None \/ transcript = << >>
        THEN [ result |-> WakeResult(FALSE, None), listens |-> 1, fuzzy |-> "notreached" ]
        ELSE IF any_exact(candidates, words, norm)
        THEN [ result |-> WakeResult(TRUE, transcript), listens |-> 1, fuzzy |-> "notreached" ]
        ELSE IF fuzzy_setting \notin FuzzyOff
        THEN [ result |-> WakeResult(any_fuzzy(words, candidates), transcript),
               listens |-> 1, fuzzy |-> "ran" ]
        ELSE [ result |-> WakeResult(FALSE, transcript), listens |-> 1, fuzzy |-> "skipped" ]

MaxTranscriptLen == 6
MaxWakeCalls == 2
TranscriptAlphabet == { "y", "u", " " }
\* utterances with words longer than the exhaustive part reaches, and with
\* capitals and other whitespace
LongTranscripts ==
    { << "y", "u", "y", "u", "y", "u" >>,
      << "y", "u", "y", "u", "y", "y" >>,
      << "y", "u", "y", "u", "y", "u", "u" >>,
      << "u", "u", "y", "u", "y", "u", "y" >>,
      << "y", "u", "y", "u", "y", "u", "y", "y" >>,
      << "u", " ", "y", "u", "y", "u", "y", "y", "y" >>,
      << "Y", "U" >>, << "y", "\t", "U", " ", "Y" >>, << "\t" >>, << "U", "u", "y" >> }
Transcripts == StrUpTo(TranscriptAlphabet, MaxTranscriptLen) \cup LongTranscripts \cup { None }

WakeWords == { << >>, << "y", "u" >>, << "y", "u", "y", "u", "y", "u", "y" >> }
WakeAliases == { None, << >>, << "u", " ", "y" >>, << "y", "y", "y", ",", "Y", "u" >> }
FuzzyValues ==
    { None, << >>, << "1" >>, << "0" >>, << "f", "a", "l", "s", "e" >>,
      << "F", "a", "l", "s", "e" >>, << "F", "A", "L", "S", "E" >>,
      << " ", "0" >>, << "f", "a", "l", "s", "e", " " >>, << " " >>, << "0", "0" >> }

InitWake ==
    /\ \/ /\ wake_word \in WakeWords
          /\ envAliases \in WakeAliases
          /\ envFuzzy \in { None, << "0" >> }
       \/ /\ wake_word = << "y", "u" >>
          /\ envAliases = None
          /\ envFuzzy \in FuzzyValues
    /\ sttTranscript \in Transcripts
    /\ calls = 0 /\ listenCalls = 0 /\ result = None /\ fuzzyPass = "none"
    /\ NormIdle /\ EditIdle /\ CandIdle /\ StripIdle

WaitForWakeWord ==
    /\ calls < MaxWakeCalls
    /\ LET r == wait_for_wake_word(settings)
       IN  /\ result' = r.result
           /\ listenCalls' = listenCalls + r.listens
           /\ fuzzyPass' = r.fuzzy
    /\ calls' = calls + 1
    /\ UNCHANGED << sttTranscript, confVars, normVars, editVars, candVars, stripVars >>

NextWake == WaitForWakeWord

SpecWake == InitWake /\ [][NextWake]_vars

\* the configured names: the normalized, non-empty primary word and aliases
ConfiguredNames ==
    ({ PrimaryWord } \cup { AliasList[i] : i \in 1..Len(AliasList) }) \ { << >> }

\* s[i..j] is a whitespace-delimited token of s
TokenAt(s, i, j) ==
    /\ i <= j
    /\ \A k \in i..j : ~IsSpace(s[k])
    /\ (i > 1 => IsSpace(s[i - 1]))
    /\ (j < Len(s) => IsSpace(s[j + 1]))

IsToken(t, s) == \E i, j \in 1..Len(s) : TokenAt(s, i, j) /\ SubSeq(s, i, j) = t

IsSubstring(c, s) ==
    \E i \in 1..(Len(s) - Len(c) + 1) : SubSeq(s, i, i + Len(c) - 1) = c

TokensOf(s) == { SubSeq(s, p[1], p[2]) :
                   p \in { q \in (1..Len(s)) \X (1..Len(s)) : TokenAt(s, q[1], q[2]) } }

FuzzyEnabled == fuzzy_setting \notin FuzzyOff

ExactFound(norm) ==
    \E c \in ConfiguredNames : IsToken(c, norm) \/ IsSubstring(c, norm)

FuzzyFound(norm) ==
    \E t \in TokensOf(norm) :
        /\ Len(t) >= 2 /\ Len(t) <= 6
        /\ \E c \in ConfiguredNames : _edit_distance_le1(t, c)

\* C1: with a non-empty candidate set, heard is true exactly when the
\* transcript is non-empty and either a candidate equals a token of, or is
\* a substring of, the normalized transcript, or fuzzy matching is enabled
\* and a token of 2 to 6 characters is within edit distance one of a
\* candidate.
C1_HeardIffMatch ==
    (calls >= 1 /\ ConfiguredNames # { }) =>
        (result.heard <=>
            /\ sttTranscript # None /\ sttTranscript # << >>
            /\ \/ ExactFound(_normalize(sttTranscript))
               \/ FuzzyEnabled /\ FuzzyFound(_normalize(sttTranscript)))

\* a call that found no candidate in the utterance and heard the wake word
\* through the fuzzy pass
C1_Witness ==
    /\ calls = 1 /\ result.heard /\ fuzzyPass = "ran"
    /\ wake_word = << "y", "u" >> /\ envAliases = None
    /\ sttTranscript = << "u", "u", " ", "y" >>

\* C4: a call with an empty candidate set returns heard=true with no
\* transcript and does not invoke listen; a call with a non-empty candidate
\* set invokes listen exactly once.
C4_ListenOncePerGatedCall ==
    [][ WaitForWakeWord =>
          IF ConfiguredNames = { }
          THEN result' = WakeResult(TRUE, None) /\ listenCalls' = listenCalls
          ELSE listenCalls' = listenCalls + 1 ]_vars

\* two calls with the wake word disabled while the recognizer has speech
\* to return
C4_Witness ==
    /\ calls = 2 /\ listenCalls = 0
    /\ wake_word = << >> /\ envAliases = << >>
    /\ sttTranscript = << "y", "u" >>
    /\ result = WakeResult(TRUE, None)

\* a candidate, or a string one edit away from a candidate, is found in the
\* normalized form of transcript t
WakeWordFoundIn(t) ==
    \E c \in ConfiguredNames :
        \/ IsSubstring(c, _normalize(t))
        \/ \E w \in TokensOf(_normalize(t)) : Levenshtein(w, c) <= 1

\* C5 as stated: every result with heard=true carries a transcript in
\* which the wake word or a fuzzy variant of it is found.
C5_HeardImpliesFound ==
    (calls >= 1 /\ result.heard) =>
        (result.transcript # None /\ WakeWordFoundIn(result.transcript))

\* C5, amended: when the candidate set is non-empty, every result with
\* heard=true carries the transcript listen returned, and a candidate or a
\* string within edit distance one of a candidate is found in its
\* normalized form.
C5_HeardImpliesFoundWhenGated ==
    (calls >= 1 /\ result.heard /\ ConfiguredNames # { }) =>
        /\ result.transcript # None /\ result.transcript = sttTranscript
        /\ WakeWordFoundIn(result.transcript)

\* the wake word heard in an utterance that holds it in capitals only
C5_Witness ==
    /\ calls = 1 /\ result.heard
    /\ wake_word = << "y", "u" >>
    /\ result.transcript = << "Y", "U" >>

\* C7 as stated: the fuzzy pass is skipped exactly when the override is
\* literally "0", "false" or "False".
C7_FuzzyOffLiteral ==
    fuzzyPass \in { "skipped", "ran" } =>
        (fuzzyPass = "skipped" <=> envFuzzy \in FuzzyOff)

\* C7, amended: the fuzzy pass is skipped exactly when the override, with
\* leading and trailing whitespace removed, is "0", "false" or "False";
\* unset, empty and every other value keep it enabled.
C7_FuzzyOffTrimmed ==
    fuzzyPass \in { "skipped", "ran" } =>
        (fuzzyPass = "skipped" <=>
            /\ envFuzzy # None
            /\ \E v \in FuzzyOff :
                  \E i, j \in 1..Len(envFuzzy) :
                      /\ SubSeq(envFuzzy, i, j) = v
                      /\ \A k \in 1..Len(envFuzzy) : (k < i \/ k > j) => IsSpace(envFuzzy[k]))

\* the override " 0" switching the fuzzy pass off for an utterance one
\* edit away from the wake word
C7_Witness ==
    /\ fuzzyPass = "skipped" /\ ~result.heard
    /\ envFuzzy = << " ", "0" >>
    /\ sttTranscript = << "u", "u" >>

----------------------------------------------------------------------------
(* strip_wake_word *)

\* the regex assertion \b before the 1-based position k of t
WordBoundary(t, k) ==
    (k > 1 /\ IsWordChar(t[k - 1])) # (k <= Len(t) /\ IsWordChar(t[k]))

\* sorted(..., key=len, reverse=True) is stable: w goes after every entry
\* at least as long
RECURSIVE insert_by_len(_, _)
insert_by_len(w, q) ==
    IF q = << >> THEN << w >>
    ELSE IF Len(Head(q)) >= Len(w) THEN << Head(q) >> \o insert_by_len(w, Tail(q))
    ELSE << w >> \o q

RECURSIVE sort_from(_, _)
sort_from(ws, acc) ==
    IF ws = << >> THEN acc ELSE sort_from(Tail(ws), insert_by_len(Head(ws), acc))

\* a plausible slip: the candidates are tried in their configured order
configured_order(candidates) == candidates

\* line 135
sorted_by_len_desc(candidates) == sort_from(candidates, << >>)

\* the alternation (?:w1|w2|...) between two \b at position pos: the first
\* alternative in order that matches there as a whole word, or None
RECURSIVE match_alternative(_, _, _)
match_alternative(t, pos, candidates) ==
    IF candidates = << >> THEN None
    ELSE LET w == Head(candidates)
         IN  IF /\ pos + Len(w) - 1 <= Len(t)
                /\ SubSeq(t, pos, pos + Len(w) - 1) = w
                /\ WordBoundary(t, pos)
                /\ WordBoundary(t, pos + Len(w))
             THEN w
             ELSE match_alternative(t, pos, Tail(candidates))

\* \s* from position k: the first position that holds no whitespace
RECURSIVE skip_spaces(_, _)
skip_spaces(t, k) ==
    IF k <= Len(t) /\ IsSpace(t[k]) THEN skip_spaces(t, k + 1) ELSE k

\* a plausible slip: the pattern ends at [:,]? and leaves the whitespace
match_stop_no_spaces(t, k) ==
    IF k <= Len(t) /\ t[k] \in { ":", "," } THEN k + 1 ELSE k

\* [:,]?\s* from position k, right after the candidate: where the match stops
match_stop(t, k) ==
    skip_spaces(t, IF k <= Len(t) /\ t[k] \in { ":", "," } THEN k + 1 ELSE k)

\* re.sub(pattern, "", t): the left-to-right scan from pos; out is the text
\* kept so far and removed the matches deleted so far
RECURSIVE re_sub_wake(_, _, _, _, _)
re_sub_wake(t, pos, candidates, out, removed) ==
    IF pos > Len(t) THEN [ out |-> out, removed |-> removed ]
    ELSE LET w == match_alternative(t, pos, candidates)
         IN  IF w # None
             THEN LET stop == match_stop(t, pos + Len(w))
                  IN  re_sub_wake(t, stop, candidates, out,
                                  Append(removed, [ pos |-> pos, cand |-> w, stop |-> stop ]))
             ELSE re_sub_wake(t, pos + 1, candidates, Append(out, t[pos]), removed)

\* the returned string and the matches the substitution deleted
strip_wake_word(text, st) ==
    LET candidates == _wake_candidates(st)
    IN  IF candidates = << >>
        THEN [ out |-> _normalize(text), removed |-> << >> ]
        ELSE LET r == re_sub_wake(_normalize(text), 1,
                                  sorted_by_len_desc(candidates), << >>, << >>)
             IN  [ out |-> str_strip(r.out), removed |-> r.removed ]

MaxTextLen == 6
TextAlphabet == { "a", "b", " ", ":" }
\* texts longer than the exhaustive part reaches, and with capitals, commas
\* and other whitespace
LongTexts ==
    { << "a", " ", "a", "b", " ", "b" >>,
      << "a", "b", " ", "a", " ", "b", ":", " ", "a" >>,
      << "A", ",", "\t", "b" >>,
      << "b", " ", "A", " ", "B", ":", "a" >> }
Texts == StrUpTo(TextAlphabet, MaxTextLen) \cup LongTexts \cup { None }

StripConfigs ==
    { << << >>, None >>,
      << << "a" >>, None >>,
      << << "a" >>, << "a", " ", "b" >> >>,
      << << "a", " ", "b" >>, << "a" >> >>,
      << << "a", "b" >>, << "a", " ", "b" >> >>,
      << << "b" >>, << "a", ";", "a", "b" >> >> }

InitStrip ==
    /\ \E c \in StripConfigs : wake_word = c[1] /\ envAliases = c[2]
    /\ envFuzzy = None
    /\ sIn \in Texts
    /\ sOut = None /\ sAgain = None /\ sRemoved = << >>
    /\ NormIdle /\ EditIdle /\ CandIdle /\ WakeIdle

\* strip_wake_word(text, settings) on the text
StripWakeWord ==
    /\ sOut = None
    /\ LET r == strip_wake_word(sIn, settings)
       IN  sOut' = r.out /\ sRemoved' = r.removed
    /\ UNCHANGED << sIn, sAgain, confVars, normVars, editVars, candVars, wakeVars >>

\* strip_wake_word(text, settings) on the string the first call returned
StripAgain ==
    /\ sOut # None /\ sAgain = None
    /\ sAgain' = strip_wake_word(sOut, settings).out
    /\ UNCHANGED << sIn, sOut, sRemoved, confVars, normVars, editVars, candVars, wakeVars >>

NextStrip == StripWakeWord \/ StripAgain

SpecStrip == InitStrip /\ [][NextStrip]_vars

\* candidate c stands at position pos of t as a whole word
WholeWordAt(t, pos, c) ==
    /\ pos + Len(c) - 1 <= Len(t)
    /\ SubSeq(t, pos, pos + Len(c) - 1) = c
    /\ WordBoundary(t, pos)
    /\ WordBoundary(t, pos + Len(c))

HasWholeWord(t) ==
    \E c \in ConfiguredNames : \E pos \in 1..Len(t) : WholeWordAt(t, pos, c)

\* C2 as stated: only the first whole-word occurrence, with its optional
\* colon or comma and whitespace, is taken out of the normalized text; the
\* rest of the text, later occurrences included, is returned trimmed.
C2_OnlyFirstOccurrenceRemoved ==
    (sOut # None /\ ConfiguredNames # { }) =>
        LET t == _normalize(sIn)
        IN  IF sRemoved = << >> THEN sOut = t
            ELSE sOut = str_strip(SubSeq(t, 1, sRemoved[1].pos - 1)
                                    \o SubSeq(t, sRemoved[1].stop, Len(t)))

\* the characters of t outside every removed match, from position i on
RECURSIVE KeptFrom(_, _, _)
KeptFrom(t, i, removed) ==
    IF i > Len(t) THEN << >>
    ELSE IF \E k \in 1..Len(removed) : removed[k].pos <= i /\ i < removed[k].stop
         THEN KeptFrom(t, i + 1, removed)
         ELSE << t[i] >> \o KeptFrom(t, i + 1, removed)

\* C9: wherever a match is removed, the candidate removed is the longest
\* candidate standing there as a whole word, whatever the configured
\* order, and the result is the text outside the removed matches: no
\* suffix of a longer candidate stays behind.
C9_LongestCandidateRemoved ==
    sOut # None =>
        LET t == _normalize(sIn)
        IN  /\ \A k \in 1..Len(sRemoved) :
                  /\ WholeWordAt(t, sRemoved[k].pos, sRemoved[k].cand)
                  /\ \A c \in ConfiguredNames :
                        WholeWordAt(t, sRemoved[k].pos, c)
                            => Len(c) <= Len(sRemoved[k].cand)
            /\ sOut = str_strip(KeptFrom(t, 1, sRemoved))

\* the short candidate configured first, the text starting with the long
\* one: the long one is removed with its colon
C9_Witness ==
    /\ wake_word = << "a" >> /\ envAliases = << "a", " ", "b" >>
    /\ sIn = << "a", " ", "b", ":", "b" >>
    /\ sOut = << "b" >>
    /\ Len(sRemoved) = 1 /\ sRemoved[1].cand = << "a", " ", "b" >>

\* C10 as stated: for every candidate set the result holds no whole-word
\* occurrence of a candidate and stripping it again returns it unchanged.
C10_StripIdempotent ==
    sAgain # None => (sAgain = sOut /\ ~HasWholeWord(sOut))

WordCharsOnly(c) == \A i \in 1..Len(c) : IsWordChar(c[i])

\* C10, amended: when every candidate consists of word characters only
\* (so no candidate holds a space), the result holds no whole-word
\* occurrence of a candidate and stripping it again returns it unchanged.
C10_StripIdempotentSingleWords ==
    (sAgain # None /\ \A c \in ConfiguredNames : WordCharsOnly(c)) =>
        (sAgain = sOut /\ ~HasWholeWord(sOut))

\* single-word candidates, a text with one of them after another word:
\* the candidate and its colon go, and the second pass changes nothing
C10_Witness ==
    /\ wake_word = << "b" >> /\ envAliases = << "a", ";", "a", "b" >>
    /\ sIn = << "b", "b", " ", "a", ":" >>
    /\ sOut = << "b", "b" >> /\ sAgain = << "b", "b" >>

====
